---- MODULE Spec2Model ----
(***************************************************************************)
(* Model of the dependency-graph engine of mcdex: the generic graph of     *)
(* package algo (algo/topo.go), the graph builder Database.buildDepGraph   *)
(* (db.go), the removal impact analysis _processDeps and the commands      *)
(* mod.remove.single and mod.remove.recursive with their executor          *)
(* _removeMods.                                                            *)
(*                                                                         *)
(* Go pointers are modelled as small integers: a *Node is a Ptr, and a     *)
(* Value (a *ManifestFileEntry) is the 1-based position of its record.     *)
(* Go's randomised map iteration is modelled as a nondeterministic choice  *)
(* of an enumeration order at every `range` over a map.                    *)
(***************************************************************************)
EXTENDS Integers, Sequences, FiniteSets, TLC

\* ---- bounds ----
MaxValues == 4      \* distinct values that can be used as graph keys
MaxPtrs == 4        \* nodes that can be allocated in one behaviour
MaxEdges == 2       \* dependency + optional edges stored in the heap
MaxOps == 3         \* mutating calls a client makes on one graph

Nil == 0
Values == 1..MaxValues
Ptrs == 1..MaxPtrs

VARIABLES
  g,        \* Graph: map[Value]*Node, Nil for an absent key
  nodes,    \* the heap of Node structs, indexed by pointer
  last,     \* the last call made and what it returned
  nops,     \* number of mutating calls made so far
  files,    \* the "files" array of the pack's manifest
  db,       \* the rows of the deps table of the database
  info,     \* the DepInfo returned by _processDeps
  relatedMods,  \* the local map relatedMods of that call when it returned
  info2,    \* the DepInfo returned by a second call with the same arguments
  disk      \* the "files" array of manifest.json as saved on disk

vars == <<g, nodes, last, nops, files, db, info, relatedMods, info2, disk>>

packVars == <<files, db, info, relatedMods, info2, disk>>

\* ---- helpers over Go maps and map iteration ----
\* every order in which `range` can enumerate the set S
RECURSIVE Perms(_)
Perms(S) ==
  IF S = {} THEN {<<>>}
  ELSE UNION {{<<x>> \o p : p \in Perms(S \ {x})} : x \in S}

\* a Go map as a function whose domain is the set of keys present
EmptyMap == [k \in {} |-> Nil]

MapPut(m, k, v) == [x \in DOMAIN m \cup {k} |-> IF x = k THEN v ELSE m[x]]

MapDelete(m, k) == [x \in DOMAIN m \ {k} |-> m[x]]

\* m[k] = append(m[k], v), where a missing key reads as the nil slice
MapAppend(m, k, v) ==
  MapPut(m, k, IF k \in DOMAIN m THEN Append(m[k], v) ELSE <<v>>)

Range(s) == {s[i] : i \in DOMAIN s}

\* ---- algo/topo.go ----
\* a slot of the heap that holds no Node
NoNode == [Value |-> Nil, Dependents |-> {}, Dependencies |-> {}, Optionals |-> {}]

MakeGraph == [g |-> [v \in Values |-> Nil], nodes |-> [p \in Ptrs |-> NoNode]]

Allocated(G) == {p \in Ptrs : G.nodes[p].Value # Nil}

\* the nodes that are values of the map
InGraph(G) == {G.g[v] : v \in Values} \ {Nil}

\* the address handed out by the next &Node{...}
Fresh(G) == IF Allocated(G) = Ptrs THEN Nil
            ELSE CHOOSE p \in Ptrs \ Allocated(G) : \A q \in Ptrs \ Allocated(G) : p <= q

IsRoot(G, n) == Cardinality(G.nodes[n].Dependents) = 0

IsLeaf(G, n) == Cardinality(G.nodes[n].Dependencies) = 0

AddNodeAlways(G, key) ==
  [g |-> [G.g EXCEPT ![key] = Fresh(G)],
   nodes |-> [G.nodes EXCEPT ![Fresh(G)] =
                [Value |-> key, Dependents |-> {}, Dependencies |-> {}, Optionals |-> {}]]]

AddNode(G, key) ==
  IF G.g[key] = Nil
  THEN [g |-> [G.g EXCEPT ![key] = Fresh(G)],
        nodes |-> [G.nodes EXCEPT ![Fresh(G)] =
                     [Value |-> key, Dependents |-> {}, Dependencies |-> {}, Optionals |-> {}]]]
  ELSE G

\* one iteration of the loop of AddDependencies
AddDependencyOneWay(G, n, key) ==
  LET G1 == AddNode(G, key)
      dep == G1.g[key]
  IN [G1 EXCEPT !.nodes[n].Dependencies = @ \cup {dep}]

AddDependency(G, n, key) ==
  LET G1 == AddNode(G, key)
      dep == G1.g[key]
  IN [G1 EXCEPT !.nodes[n].Dependencies = @ \cup {dep},
                !.nodes[dep].Dependents = @ \cup {n}]

RECURSIVE AddDependencies(_, _, _)
AddDependencies(G, n, keys) ==
  IF keys = <<>> THEN G
  ELSE AddDependencies(AddDependency(G, n, Head(keys)), n, Tail(keys))

\* one iteration of the loop of AddOptionals
AddOptionalReciprocal(G, n, key) ==
  LET G1 == AddNode(G, key)
      dep == G1.g[key]
  IN [G1 EXCEPT !.nodes[n].Optionals = @ \cup {dep},
                !.nodes[dep].Dependents = @ \cup {n}]

AddOptional(G, n, key) ==
  LET G1 == AddNode(G, key)
      dep == G1.g[key]
  IN [G1 EXCEPT !.nodes[n].Optionals = @ \cup {dep}]

RECURSIVE AddOptionals(_, _, _)
AddOptionals(G, n, keys) ==
  IF keys = <<>> THEN G
  ELSE AddOptionals(AddOptional(G, n, Head(keys)), n, Tail(keys))

RemoveNodeKeepOptionals(G, key) ==
  IF G.g[key] = Nil THEN G
  ELSE LET n == G.g[key]
       IN [g |-> [G.g EXCEPT ![key] = Nil],
           nodes |-> [d \in Ptrs |->
                        IF d \in InGraph(G)
                        THEN [G.nodes[d] EXCEPT !.Dependencies = @ \ {n},
                                                !.Dependents = @ \ {n}]
                        ELSE G.nodes[d]]]

RemoveNode(G, key) ==
  IF G.g[key] = Nil THEN G
  ELSE LET n == G.g[key]
       IN [g |-> [G.g EXCEPT ![key] = Nil],
           nodes |-> [d \in Ptrs |->
                        IF d \in InGraph(G)
                        THEN [G.nodes[d] EXCEPT !.Dependencies = @ \ {n},
                                                !.Dependents = @ \ {n},
                                                !.Optionals = @ \ {n}]
                        ELSE G.nodes[d]]]

\* the body of the loop `for len(next) > 0`, for every iteration order of
\* n.Dependencies; degree[d] of a key that is not in the map reads as 0
RECURSIVE SortedLoop(_, _, _, _)
SortedLoop(G, next, degree, sorted) ==
  IF Len(next) = 0 THEN {sorted}
  ELSE LET n == Head(next)
           deps == G.nodes[n].Dependencies
           degree1 == [d \in Ptrs |-> IF d \in deps THEN degree[d] - 1 ELSE degree[d]]
       IN UNION {SortedLoop(G,
                            Tail(next) \o SelectSeq(ord, LAMBDA d : degree1[d] = 0),
                            degree1,
                            Append(sorted, n)) : ord \in Perms(deps)}

SortedFromEveryNode(G) ==
  UNION {SortedLoop(G, next,
                    [d \in Ptrs |-> IF d \in InGraph(G) /\ ~IsRoot(G, d)
                                    THEN Cardinality(G.nodes[d].Dependents) ELSE 0],
                    <<>>) : next \in Perms(InGraph(G))}

\* every list Graph.Sorted() can return: the first loop leaves the roots in
\* next, in the order `range g` met them, and the degrees of the others
Sorted(G) ==
  UNION {SortedLoop(G, next,
                    [d \in Ptrs |-> IF d \in InGraph(G) /\ ~IsRoot(G, d)
                                    THEN Cardinality(G.nodes[d].Dependents) ELSE 0],
                    <<>>) : next \in {SelectSeq(ord, LAMBDA n : IsRoot(G, n)) :
                                        ord \in Perms(InGraph(G))}}

\* ---- DepInfo ----
NoInfo == [targets |-> {Nil}, dependents |-> EmptyMap,
           dependencies |-> EmptyMap, optionals |-> EmptyMap]

\* ---- the graph API driven by an arbitrary client ----
Graph == [g |-> g, nodes |-> nodes]

EdgeCount(G) ==
  LET RECURSIVE Sum(_)
      Sum(S) == IF S = {} THEN 0
                ELSE LET p == CHOOSE x \in S : TRUE
                     IN Cardinality(G.nodes[p].Dependencies)
                        + Cardinality(G.nodes[p].Optionals) + Sum(S \ {p})
  IN Sum(Ptrs)

\* the call stays within the modelled heap: enough free addresses for the
\* nodes it creates, and room for the edges it adds
Fits(G, keys, edges) ==
  /\ Cardinality({keys[i] : i \in 1..Len(keys)} \cap {v \in Values : G.g[v] = Nil})
       <= Cardinality(Ptrs \ Allocated(G))
  /\ EdgeCount(G) + edges <= MaxEdges
  /\ nops < MaxOps

Call(op, n, keys, ret, out) == [op |-> op, n |-> n, keys |-> keys, ret |-> ret, out |-> out]

Init ==
  /\ g = MakeGraph.g
  /\ nodes = MakeGraph.nodes
  /\ last = Call("MakeGraph", Nil, <<>>, Nil, <<>>)
  /\ nops = 0
  /\ files = <<>>
  /\ db = {}
  /\ info = NoInfo
  /\ relatedMods = EmptyMap
  /\ info2 = NoInfo
  /\ disk = <<>>

DoAddNode ==
  \E key \in Values :
    /\ Fits(Graph, <<key>>, 0)
    /\ g' = AddNode(Graph, key).g
    /\ nodes' = AddNode(Graph, key).nodes
    /\ last' = Call("AddNode", Nil, <<key>>, AddNode(Graph, key).g[key], <<>>)
    /\ nops' = nops + 1
    /\ UNCHANGED packVars

\* n is any node handle the client got from AddNode, also one whose node
\* has been removed from the graph since; the call passes one key, as every
\* call in db.go does
DoAddDependencies ==
  \E n \in Allocated(Graph), keys \in [1..1 -> Values] :
    /\ Fits(Graph, keys, Len(keys))
    /\ g' = AddDependencies(Graph, n, keys).g
    /\ nodes' = AddDependencies(Graph, n, keys).nodes
    /\ last' = Call("AddDependencies", n, keys, Nil, <<>>)
    /\ nops' = nops + 1
    /\ UNCHANGED packVars

DoAddOptionals ==
  \E n \in Allocated(Graph), keys \in [1..1 -> Values] :
    /\ Fits(Graph, keys, Len(keys))
    /\ g' = AddOptionals(Graph, n, keys).g
    /\ nodes' = AddOptionals(Graph, n, keys).nodes
    /\ last' = Call("AddOptionals", n, keys, Nil, <<>>)
    /\ nops' = nops + 1
    /\ UNCHANGED packVars

DoRemoveNode ==
  \E key \in Values :
    /\ nops < MaxOps
    /\ g' = RemoveNode(Graph, key).g
    /\ nodes' = RemoveNode(Graph, key).nodes
    /\ last' = Call("RemoveNode", Nil, <<key>>, Nil, <<>>)
    /\ nops' = nops + 1
    /\ UNCHANGED packVars

DoSorted ==
  \E s \in Sorted(Graph) :
    /\ last' = Call("Sorted", Nil, <<>>, Nil, s)
    /\ UNCHANGED <<g, nodes, nops>>
    /\ UNCHANGED packVars

Next ==
  \/ DoAddNode
  \/ DoAddDependencies
  \/ DoAddOptionals
  \/ DoRemoveNode
  \/ DoSorted

Spec == Init /\ [][Next]_vars

\* ---- claims about the graph API (specification Spec) ----
GraphNext == [g |-> g', nodes |-> nodes']

KeyNodes(G, keys) == {G.g[keys[i]] : i \in 1..Len(keys)}

\* the node a key maps to in G, or a node with three empty sets when absent
NodeOf(G, key) == IF G.g[key] = Nil THEN NoNode ELSE G.nodes[G.g[key]]

\* C1: edge symmetry. For all nodes A and B of the graph, B is in
\* A.Dependencies iff A is in B.Dependents; and right after
\* A.AddDependencies(B...), every B is in A.Dependencies and A is in
\* B.Dependents.
C1_EdgeSymmetry ==
  /\ \A a, b \in InGraph(Graph) :
        b \in nodes[a].Dependencies <=> a \in nodes[b].Dependents
  /\ last.op = "AddDependencies" =>
        \A b \in KeyNodes(Graph, last.keys) :
          /\ b \in nodes[last.n].Dependencies
          /\ last.n \in nodes[b].Dependents

C1_Witness ==
  /\ last.op = "AddDependencies"
  /\ Len(last.keys) = 1
  /\ last.n \in InGraph(Graph)
  /\ last.n \notin KeyNodes(Graph, last.keys)

\* C2 as stated: A.AddOptionals(B) puts B in A.Optionals and leaves
\* B.Dependents, B.Dependencies, B.Optionals, A.Dependents and
\* A.Dependencies exactly as they were (B counts as a node with empty sets if
\* it was absent).
C2_OptionalsFrameAsStated ==
  [][last'.op = "AddOptionals" =>
       \A i \in 1..Len(last'.keys) :
         LET A == last'.n
             key == last'.keys[i]
             B == g'[key]
         IN /\ B \in nodes'[A].Optionals
            /\ nodes'[B].Dependents = NodeOf(Graph, key).Dependents
            /\ nodes'[B].Dependencies = NodeOf(Graph, key).Dependencies
            /\ nodes'[B].Optionals = NodeOf(Graph, key).Optionals
            /\ nodes'[A].Dependents = nodes[A].Dependents
            /\ nodes'[A].Dependencies = nodes[A].Dependencies]_vars

\* C2 amended: A.AddOptionals(B) puts B in A.Optionals and leaves
\* B.Dependents, B.Dependencies, A.Dependents and A.Dependencies exactly as
\* they were; B.Optionals is left as it was unless B is A itself, in which
\* case it gains exactly the nodes of the keys passed.
C2_OptionalsOneDirectional ==
  [][last'.op = "AddOptionals" =>
       \A i \in 1..Len(last'.keys) :
         LET A == last'.n
             key == last'.keys[i]
             B == g'[key]
         IN /\ B \in nodes'[A].Optionals
            /\ nodes'[B].Dependents = NodeOf(Graph, key).Dependents
            /\ nodes'[B].Dependencies = NodeOf(Graph, key).Dependencies
            /\ B # A => nodes'[B].Optionals = NodeOf(Graph, key).Optionals
            /\ B = A => nodes'[B].Optionals =
                          nodes[A].Optionals \cup KeyNodes(GraphNext, last'.keys)
            /\ nodes'[A].Dependents = nodes[A].Dependents
            /\ nodes'[A].Dependencies = nodes[A].Dependencies]_vars

C2_Witness ==
  /\ last.op = "AddOptionals"
  /\ Len(last.keys) >= 1
  /\ g[last.keys[1]] # last.n
  /\ g[last.keys[1]] \in nodes[last.n].Optionals
  /\ nodes[g[last.keys[1]]].Dependencies # {}

\* C3: Graph.Sorted() yields every node of the graph exactly once: the list
\* is as long as the graph has nodes and holds no node twice.
C3_SortedYieldsEveryNodeOnce ==
  last.op = "Sorted" =>
    /\ Len(last.out) = Cardinality(InGraph(Graph))
    /\ \A i, j \in 1..Len(last.out) : i # j => last.out[i] # last.out[j]

\* C4: topological validity. For nodes A and B that both appear in the
\* output of Sorted() with B in A.Dependencies, A appears before B.
C4_SortedTopological ==
  last.op = "Sorted" =>
    \A i, j \in 1..Len(last.out) :
      last.out[j] \in nodes[last.out[i]].Dependencies => i < j

C4_Witness ==
  /\ last.op = "Sorted"
  /\ Len(last.out) = 3
  /\ last.out[2] \in nodes[last.out[1]].Dependencies
  /\ last.out[3] \in nodes[last.out[2]].Dependencies

\* C5: AddNode is an idempotent upsert. For a key that is present it returns
\* the node already there and changes nothing; for an absent key it creates
\* exactly one node, with three empty sets, and changes no other node or key.
C5_AddNodeUpsert ==
  [][last'.op = "AddNode" =>
       LET key == last'.keys[1]
       IN IF g[key] # Nil
          THEN /\ last'.ret = g[key]
               /\ g' = g
               /\ nodes' = nodes
          ELSE /\ last'.ret = g'[key]
               /\ g'[key] \in Ptrs \ Allocated(Graph)
               /\ nodes'[g'[key]] = [Value |-> key, Dependents |-> {},
                                     Dependencies |-> {}, Optionals |-> {}]
               /\ \A v \in Values \ {key} : g'[v] = g[v]
               /\ \A p \in Ptrs \ {g'[key]} : nodes'[p] = nodes[p]]_vars

C5_Witness ==
  /\ last.op = "AddNode"
  /\ nodes[last.ret].Dependencies # {}
  /\ nodes[last.ret].Dependents # {}

\* C6: after RemoveNode(v), v is no key of the graph, the removed node is in
\* no remaining node's Dependencies, Dependents or Optionals, every other
\* member of those sets is kept, and the other keys are kept; RemoveNode of
\* an absent value changes nothing.
C6_RemoveNodeScrubs ==
  [][last'.op = "RemoveNode" =>
       LET key == last'.keys[1]
           n == g[key]
       IN IF n = Nil
          THEN /\ g' = g
               /\ nodes' = nodes
          ELSE /\ g'[key] = Nil
               /\ \A v \in Values \ {key} : g'[v] = g[v]
               /\ \A d \in InGraph(GraphNext) :
                    /\ nodes'[d].Value = nodes[d].Value
                    /\ nodes'[d].Dependencies = nodes[d].Dependencies \ {n}
                    /\ nodes'[d].Dependents = nodes[d].Dependents \ {n}
                    /\ nodes'[d].Optionals = nodes[d].Optionals \ {n}]_vars

C6_Witness ==
  /\ last.op = "RemoveNode"
  /\ g[last.keys[1]] = Nil
  /\ \E p \in Allocated(Graph) \ InGraph(Graph) :
       /\ nodes[p].Value = last.keys[1]
       /\ \E d \in nodes[p].Dependents \cap InGraph(Graph) :
            p \notin nodes[d].Dependencies

\* ---- db.go: Database.buildDepGraph ----
MaxDeps == 3        \* rows of the deps table
MaxRows == 1        \* rows of the deps table of a pack that mods are removed from

Required == 1
Optional == 2
Embedded == 3

\* the files table of the database: file v of project v has file id 10 * v
DbFiles == {[fileid |-> 10 * v, projectid |-> v] : v \in Values}

\* the ManifestFileEntry built for position v of the files array (1-based)
Entry(fs, v) == [idx |-> v - 1, projId |-> fs[v].projectID, fileId |-> fs[v].fileID]

\* the first loop: one record and one node per element of the files array;
\* fileIds maps a file id to the record made last for it
\* SELECT DISTINCT name FROM files f, projects p WHERE f.fileid = ? AND
\* f.projectid = ? AND p.projectid = f.projectid; project v has the name v
nameQuery(fileId, projId) ==
  {f.projectid : f \in {x \in DbFiles : x.fileid = fileId /\ x.projectid = projId}}

RECURSIVE LoadFiles(_, _, _)
LoadFilesNamedOnly(fs, i, st) ==
  IF i > Len(fs) THEN st
  ELSE IF nameQuery(Entry(fs, i).fileId, Entry(fs, i).projId) = {}
  THEN LoadFiles(fs, i + 1, st)
  ELSE LoadFiles(fs, i + 1,
                 [G |-> AddNode(st.G, i),
                  fileIds |-> MapPut(st.fileIds, Entry(fs, i).fileId, i)])

LoadFiles(fs, i, st) ==
  IF i > Len(fs) THEN st
  ELSE LoadFiles(fs, i + 1,
                 [G |-> AddNode(st.G, i),
                  fileIds |-> MapPut(st.fileIds, Entry(fs, i).fileId, i)])

\* SELECT DISTINCT d.fileid, f.fileid, level FROM deps d, files f WHERE ...
DepRows(rows, fileIds) ==
  {[fileid |-> d.fileid, depid |-> f.fileid, level |-> d.level] :
     <<d, f>> \in {x \in rows \X DbFiles :
                     /\ x[1].level # 3
                     /\ x[2].projectid = x[1].projectid
                     /\ x[1].fileid \in DOMAIN fileIds
                     /\ x[2].fileid \in DOMAIN fileIds}}

\* the second loop; every node exists already, so the order of the rows
\* does not show in the result
RECURSIVE LoadDeps(_, _, _)
LoadDepsDefaultOptional(G, fileIds, rows) ==
  IF rows = {} THEN G
  ELSE LET r == CHOOSE x \in rows : TRUE
           node == G.g[fileIds[r.fileid]]
           dep == fileIds[r.depid]
           G1 == IF r.level = Required THEN AddDependencies(G, node, <<dep>>)
                 ELSE AddOptionals(G, node, <<dep>>)
       IN LoadDeps(G1, fileIds, rows \ {r})

LoadDeps(G, fileIds, rows) ==
  IF rows = {} THEN G
  ELSE LET r == CHOOSE x \in rows : TRUE
           node == G.g[fileIds[r.fileid]]
           dep == fileIds[r.depid]
           G1 == IF r.level = Required THEN AddDependencies(G, node, <<dep>>)
                 ELSE IF r.level = Optional THEN AddOptionals(G, node, <<dep>>)
                 ELSE G
       IN LoadDeps(G1, fileIds, rows \ {r})

buildDepGraph(fs, rows) ==
  LET st == LoadFiles(fs, 1, [G |-> MakeGraph, fileIds |-> EmptyMap])
  IN LoadDeps(st.G, st.fileIds, DepRows(rows, st.fileIds))

\* ---- _processDeps ----
MaxInt32 == 2147483647

EffectiveMaxDepthRaw(maxDepth) == maxDepth

\* if maxDepth < 0 { maxDepth = math.MaxInt32 }
EffectiveMaxDepth(maxDepth) == IF maxDepth < 0 THEN MaxInt32 ELSE maxDepth

\* phase 1, `for dd := range d.Dependents` with the iteration order ord
RECURSIVE RecordDependents(_, _, _, _)
RecordDependents(G, dependents, ord, d) ==
  IF Len(ord) = 0 THEN dependents
  ELSE RecordDependents(G,
                        MapAppend(dependents, G.nodes[Head(ord)].Value, G.nodes[d].Value),
                        Tail(ord), d)

RECURSIVE Phase1Loop(_, _, _, _, _, _)
Phase1LoopUnbounded(G, deps, depths, maxDepth, related, dependents) ==
  IF ~(Len(deps) > 0)
  THEN {[relatedMods |-> related, dependents |-> dependents]}
  ELSE LET d == Head(deps)
           depth == Head(depths)
       IN IF d \in DOMAIN related
          THEN Phase1Loop(G, Tail(deps), Tail(depths), maxDepth, related, dependents)
          ELSE UNION {Phase1Loop(G,
                                 Tail(deps) \o ord,
                                 Tail(depths) \o [i \in 1..Len(ord) |-> depth + 1],
                                 maxDepth,
                                 MapPut(related, d, depth),
                                 RecordDependents(G, dependents, ord, d)) :
                        ord \in Perms(G.nodes[d].Dependents)}

\* phase 1, `for len(deps) > 0 && depths[0] < maxDepth`
Phase1Loop(G, deps, depths, maxDepth, related, dependents) ==
  IF ~(Len(deps) > 0 /\ Head(depths) < maxDepth)
  THEN {[relatedMods |-> related, dependents |-> dependents]}
  ELSE LET d == Head(deps)
           depth == Head(depths)
       IN IF d \in DOMAIN related
          THEN Phase1Loop(G, Tail(deps), Tail(depths), maxDepth, related, dependents)
          ELSE UNION {Phase1Loop(G,
                                 Tail(deps) \o ord,
                                 Tail(depths) \o [i \in 1..Len(ord) |-> depth + 1],
                                 maxDepth,
                                 MapPut(related, d, depth),
                                 RecordDependents(G, dependents, ord, d)) :
                        ord \in Perms(G.nodes[d].Dependents)}

\* the nodes whose entry has a file id in targetModIds
TargetNodes(G, fs, targetModIds) ==
  {m \in InGraph(G) : Entry(fs, G.nodes[m].Value).fileId \in targetModIds}

\* phase 1; `range mods` seeds the queue with the targets in map order
Phase1(G, fs, targetModIds, maxDepth) ==
  UNION {Phase1Loop(G, seeds, [i \in 1..Len(seeds) |-> 0], maxDepth, EmptyMap, EmptyMap) :
           seeds \in Perms(TargetNodes(G, fs, targetModIds))}

\* phase 2, minDepth after `for d := range m.Dependents` in the order ord
RECURSIVE MinDepth(_, _, _)
MinDepth(ord, related, minDepth) ==
  IF Len(ord) = 0 THEN minDepth
  ELSE MinDepth(Tail(ord), related,
                IF (related[Head(ord)] + 1) < minDepth
                THEN related[Head(ord)] + 1 ELSE minDepth)

RECURSIVE Phase2Loop(_, _, _, _, _)
Phase2LoopRootsToo(G, sorted, maxDepth, related, dependencies) ==
  IF Len(sorted) = 0
  THEN {[relatedMods |-> related, dependencies |-> dependencies]}
  ELSE LET m == Head(sorted)
       IN IF m \in DOMAIN related
          THEN Phase2Loop(G, Tail(sorted), maxDepth, related, dependencies)
          ELSE IF \E d \in G.nodes[m].Dependents :
                    d \notin DOMAIN related \/ related[d] >= maxDepth
          THEN Phase2Loop(G, Tail(sorted), maxDepth, related, dependencies)
          ELSE UNION {Phase2Loop(G, Tail(sorted), maxDepth,
                                 MapPut(related, m, MinDepth(ord, related, 0)),
                                 MapPut(dependencies, G.nodes[m].Value,
                                        [i \in 1..Len(ord) |-> G.nodes[ord[i]].Value])) :
                        ord \in Perms(G.nodes[m].Dependents)}

\* phase 2, `for _, m := range sorted`
Phase2Loop(G, sorted, maxDepth, related, dependencies) ==
  IF Len(sorted) = 0
  THEN {[relatedMods |-> related, dependencies |-> dependencies]}
  ELSE LET m == Head(sorted)
       IN IF IsRoot(G, m)
          THEN Phase2Loop(G, Tail(sorted), maxDepth, related, dependencies)
          ELSE IF m \in DOMAIN related
          THEN Phase2Loop(G, Tail(sorted), maxDepth, related, dependencies)
          ELSE IF \E d \in G.nodes[m].Dependents :
                    d \notin DOMAIN related \/ related[d] >= maxDepth
          THEN Phase2Loop(G, Tail(sorted), maxDepth, related, dependencies)
          ELSE UNION {Phase2Loop(G, Tail(sorted), maxDepth,
                                 MapPut(related, m, MinDepth(ord, related, 0)),
                                 MapPut(dependencies, G.nodes[m].Value,
                                        [i \in 1..Len(ord) |-> G.nodes[ord[i]].Value])) :
                        ord \in Perms(G.nodes[m].Dependents)}

\* phase 3, `for o := range m.Optionals` in the order ord
RECURSIVE ScanOptionals(_, _, _, _, _, _)
ScanOptionalsSwapped(G, ord, maxDepth, related, dependencies, opts) ==
  IF Len(ord) = 0
  THEN [relatedMods |-> related, dependencies |-> dependencies, opts |-> opts]
  ELSE LET o == Head(ord)
           entry == G.nodes[o].Value
       IN IF o \notin DOMAIN related \/ related[o] >= maxDepth
          THEN ScanOptionals(G, Tail(ord), maxDepth, related, dependencies, opts)
          ELSE IF entry \in DOMAIN dependencies
          THEN ScanOptionals(G, Tail(ord), maxDepth, related, dependencies,
                             Append(opts, entry))
          ELSE ScanOptionals(G, Tail(ord), maxDepth, MapDelete(related, o),
                             MapDelete(dependencies, entry), opts)

ScanOptionals(G, ord, maxDepth, related, dependencies, opts) ==
  IF Len(ord) = 0
  THEN [relatedMods |-> related, dependencies |-> dependencies, opts |-> opts]
  ELSE LET o == Head(ord)
           entry == G.nodes[o].Value
       IN IF o \notin DOMAIN related \/ related[o] >= maxDepth
          THEN ScanOptionals(G, Tail(ord), maxDepth, related, dependencies, opts)
          ELSE IF entry \notin DOMAIN dependencies
          THEN ScanOptionals(G, Tail(ord), maxDepth, related, dependencies,
                             Append(opts, entry))
          ELSE ScanOptionals(G, Tail(ord), maxDepth, MapDelete(related, o),
                             MapDelete(dependencies, entry), opts)

\* phase 3, `for _, m := range mods` in the order `order`
RECURSIVE Phase3Loop(_, _, _, _, _, _)
Phase3Loop(G, order, maxDepth, related, dependencies, optionals) ==
  IF Len(order) = 0
  THEN {[relatedMods |-> related, dependencies |-> dependencies, optionals |-> optionals]}
  ELSE LET m == Head(order)
       IN IF m \in DOMAIN related
          THEN Phase3Loop(G, Tail(order), maxDepth, related, dependencies, optionals)
          ELSE UNION {LET r == ScanOptionals(G, ord, maxDepth, related, dependencies, <<>>)
                      IN Phase3Loop(G, Tail(order), maxDepth, r.relatedMods, r.dependencies,
                                    IF Len(r.opts) > 0
                                    THEN MapPut(optionals, G.nodes[m].Value, r.opts)
                                    ELSE optionals) :
                        ord \in Perms(G.nodes[m].Optionals)}

\* every (DepInfo, relatedMods) a call of _processDeps on the graph G can end with
processDeps(G, fs, targetModIds, maxDepthArg) ==
  LET maxDepth == EffectiveMaxDepth(maxDepthArg)
      targets == {G.nodes[m].Value : m \in TargetNodes(G, fs, targetModIds)}
      P1 == Phase1(G, fs, targetModIds, maxDepth)
      P2 == UNION {{[dependents |-> p1.dependents, relatedMods |-> p2.relatedMods,
                     dependencies |-> p2.dependencies] :
                      p2 \in UNION {Phase2Loop(G, sorted, maxDepth, p1.relatedMods, EmptyMap) :
                                      sorted \in Sorted(G)}} : p1 \in P1}
      P3 == UNION {{[dependents |-> p2.dependents, relatedMods |-> p3.relatedMods,
                     dependencies |-> p3.dependencies, optionals |-> p3.optionals] :
                      p3 \in UNION {Phase3Loop(G, order, maxDepth, p2.relatedMods,
                                               p2.dependencies, EmptyMap) :
                                      order \in Perms(InGraph(G))}} : p2 \in P2}
  IN {[info |-> [targets |-> targets, dependents |-> p.dependents,
                 dependencies |-> p.dependencies, optionals |-> p.optionals],
       relatedMods |-> p.relatedMods] : p \in P3}

\* the same call with what each phase left behind: relatedMods after phase 1,
\* the list Graph.Sorted() handed to phase 2, and relatedMods and
\* result.dependencies after phase 2
processDepsPhases(G, fs, targetModIds, maxDepthArg) ==
  LET maxDepth == EffectiveMaxDepth(maxDepthArg)
      targets == {G.nodes[m].Value : m \in TargetNodes(G, fs, targetModIds)}
      P1 == Phase1(G, fs, targetModIds, maxDepth)
      P2 == UNION {UNION {{[dependents |-> p1.dependents, phase1 |-> p1.relatedMods,
                            sorted |-> sorted, relatedMods |-> p2.relatedMods,
                            dependencies |-> p2.dependencies] :
                             p2 \in Phase2Loop(G, sorted, maxDepth, p1.relatedMods, EmptyMap)} :
                            sorted \in Sorted(G)} : p1 \in P1}
      P3 == UNION {{[p2 |-> p2, relatedMods |-> p3.relatedMods,
                     dependencies |-> p3.dependencies, optionals |-> p3.optionals] :
                      p3 \in UNION {Phase3Loop(G, order, maxDepth, p2.relatedMods,
                                               p2.dependencies, EmptyMap) :
                                      order \in Perms(InGraph(G))}} : p2 \in P2}
  IN {[info |-> [targets |-> targets, dependents |-> p.p2.dependents,
                 dependencies |-> p.dependencies, optionals |-> p.optionals],
       relatedMods |-> p.relatedMods,
       phase1 |-> p.p2.phase1,
       sorted |-> p.p2.sorted,
       phase2 |-> [relatedMods |-> p.p2.relatedMods, dependencies |-> p.p2.dependencies]] :
        p \in P3}

\* ---- one analysis of a pack ----
\* the packs: the first n files of the database are in the manifest
MaxFiles == 3       \* files in the manifest of an analysed pack

Manifests ==
  {[i \in 1..n |-> [projectID |-> i, fileID |-> 10 * i]] : n \in 1..MaxFiles}

\* the required and optional rows the deps table can hold about n files,
\* numbered from 0
RowCount(n) == n * n * 2

RowAt(n, e) ==
  [fileid |-> 10 * ((e \div (2 * n)) + 1),
   projectid |-> ((e \div 2) % n) + 1,
   level |-> IF e % 2 = 0 THEN Required ELSE Optional]

\* the tables of at most k of the rows numbered from e on
RECURSIVE Tables(_, _, _)
Tables(n, e, k) ==
  IF k = 0 \/ e >= RowCount(n) THEN {{}}
  ELSE Tables(n, e + 1, k) \cup {t \cup {RowAt(n, e)} : t \in Tables(n, e + 1, k - 1)}

\* the rows of one level as a number: one binary digit per pair of files
RECURSIVE LevelCode(_, _, _)
LevelCode(rows, n, level) ==
  IF rows = {} THEN 0
  ELSE LET r == CHOOSE x \in rows : TRUE
       IN (IF r.level = level
           THEN 2 ^ (((r.fileid \div 10) - 1) * n + (r.projectid - 1)) ELSE 0)
          + LevelCode(rows \ {r}, n, level)

\* tables ordered by the code of their required rows, then of their optional rows
CodeLeq(a, b, n) ==
  \/ LevelCode(a, n, Required) < LevelCode(b, n, Required)
  \/ /\ LevelCode(a, n, Required) = LevelCode(b, n, Required)
     /\ LevelCode(a, n, Optional) <= LevelCode(b, n, Optional)

\* the table after the files are renumbered by perm
Renumbered(rows, perm) ==
  {[fileid |-> 10 * perm[r.fileid \div 10], projectid |-> perm[r.projectid],
    level |-> r.level] : r \in rows}

Renumberings == [n \in 1..(IF MaxValues < MaxPtrs THEN MaxValues ELSE MaxPtrs) |-> Perms(1..n)]

\* The analysis does not depend on how the files are numbered. Of the
\* tables that differ only in that numbering, the least one is taken.
Numbered(rows, n) ==
  \A perm \in Renumberings[n] : CodeLeq(rows, Renumbered(rows, perm), n)

InitDeps ==
  /\ g = MakeGraph.g
  /\ nodes = MakeGraph.nodes
  /\ last = [op |-> "NewModPack", targetModIds |-> {}, maxDepth |-> 0]
  /\ nops = 0
  /\ files \in Manifests
  /\ db \in {rows \in Tables(Len(files), 0, MaxDeps) : Numbered(rows, Len(files))}
  /\ info = NoInfo
  /\ relatedMods = EmptyMap
  /\ info2 = NoInfo
  /\ disk = files

\* _initRemove hands over the file ids it resolved in the pack, at least one;
\* maxDepth is 1 (cmdModRemoveSingle) or -1 (cmdModRemoveRecursive)
DoProcessDeps ==
  /\ last.op = "NewModPack"
  /\ LET G == buildDepGraph(files, db)
     IN \E targetModIds \in SUBSET {files[i].fileID : i \in 1..Len(files)},
           maxDepth \in {1, -1} :
          /\ targetModIds # {}
          /\ g' = G.g
          /\ nodes' = G.nodes
          /\ \E r \in processDeps(G, files, targetModIds, maxDepth) :
               /\ info' = r.info
               /\ relatedMods' = r.relatedMods
          /\ last' = [op |-> "_processDeps", targetModIds |-> targetModIds,
                      maxDepth |-> maxDepth]
  /\ UNCHANGED <<nops, files, db, info2, disk>>

\* the same call once more on the unchanged pack
DoProcessDepsAgain ==
  /\ last.op = "_processDeps"
  /\ \E r \in processDeps(buildDepGraph(files, db), files,
                            last.targetModIds, last.maxDepth) :
       info2' = r.info
  /\ last' = [last EXCEPT !.op = "_processDeps again"]
  /\ UNCHANGED <<g, nodes, nops, files, db, info, relatedMods, disk>>

NextDeps ==
  \/ DoProcessDeps
  \/ DoProcessDepsAgain

SpecDeps == InitDeps /\ [][NextDeps]_vars

\* ---- one analysis, phase by phase ----
\* the call of _processDeps with the state each phase left behind
DoProcessDepsPhases ==
  /\ last.op = "NewModPack"
  /\ LET G == buildDepGraph(files, db)
     IN \E targetModIds \in SUBSET {files[i].fileID : i \in 1..Len(files)},
           maxDepth \in {1, -1} :
          /\ targetModIds # {}
          /\ g' = G.g
          /\ nodes' = G.nodes
          /\ \E r \in processDepsPhases(G, files, targetModIds, maxDepth) :
               /\ info' = r.info
               /\ relatedMods' = r.relatedMods
               /\ last' = [op |-> "_processDeps", targetModIds |-> targetModIds,
                           maxDepth |-> maxDepth, phase1 |-> r.phase1,
                           sorted |-> r.sorted, phase2 |-> r.phase2]
  /\ UNCHANGED <<nops, files, db, info2, disk>>

NextPhases == DoProcessDepsPhases

SpecPhases == InitDeps /\ [][NextPhases]_vars

\* a pack of one file more than MaxFiles, with one row more than MaxDeps
LargeManifest == [i \in 1..(MaxFiles + 1) |-> [projectID |-> i, fileID |-> 10 * i]]

InitLarge ==
  /\ g = MakeGraph.g
  /\ nodes = MakeGraph.nodes
  /\ last = [op |-> "NewModPack", targetModIds |-> {}, maxDepth |-> 0]
  /\ nops = 0
  /\ files = LargeManifest
  /\ db \in {rows \in Tables(Len(files), 0, MaxDeps + 1) : Numbered(rows, Len(files))}
  /\ info = NoInfo
  /\ relatedMods = EmptyMap
  /\ info2 = NoInfo
  /\ disk = files

SpecLarge == InitLarge /\ [][NextPhases]_vars

\* ---- the graph builder on its own ----
\* a file the database has no record of
UnknownFile == [projectID |-> Nil, fileID |-> 5]

\* the packs of Manifests, as they are or with one more entry: the unknown
\* file, or the first file once more
BuildManifests ==
  {m \o x : m \in Manifests, x \in {<<>>, <<UnknownFile>>}}
    \cup {Append(m, m[1]) : m \in Manifests}

\* the levels a row of the deps table can have: the three of DepType and one more
Levels == {Required, Optional, Embedded, Embedded + 1}

\* the rows the deps table can hold: about any file, installed or not
BuildRows ==
  {[fileid |-> f, projectid |-> p, level |-> l] :
     f \in {x.fileid : x \in DbFiles} \cup {UnknownFile.fileID}, p \in Values, l \in Levels}

\* the tables of at most k of the rows
RECURSIVE BuildTables(_, _)
BuildTables(rows, k) ==
  IF k = 0 THEN {{}}
  ELSE LET T == BuildTables(rows, k - 1)
       IN T \cup {t \cup {r} : t \in T, r \in rows}

InitBuild ==
  /\ g = MakeGraph.g
  /\ nodes = MakeGraph.nodes
  /\ last = [op |-> "NewModPack"]
  /\ nops = 0
  /\ files \in BuildManifests
  /\ db \in BuildTables(BuildRows, MaxRows)
  /\ info = NoInfo
  /\ relatedMods = EmptyMap
  /\ info2 = NoInfo
  /\ disk = files

DoBuildDepGraph ==
  /\ last.op = "NewModPack"
  /\ g' = buildDepGraph(files, db).g
  /\ nodes' = buildDepGraph(files, db).nodes
  /\ last' = [op |-> "buildDepGraph"]
  /\ UNCHANGED <<nops, files, db, info, relatedMods, info2, disk>>

NextBuild == DoBuildDepGraph

SpecBuild == InitBuild /\ [][NextBuild]_vars

\* ---- claims about the impact analysis (specification SpecDeps) ----
\* the DepInfos returned so far
Returned ==
  IF last.op = "_processDeps" THEN {info}
  ELSE IF last.op = "_processDeps again" THEN {info, info2}
  ELSE {}

\* C7: no key of DepInfo.dependencies is a root node (a node whose
\* Dependents set is empty).
C7_RootsNeverOrphaned ==
  \A inf \in Returned :
    \A k \in DOMAIN inf.dependencies : ~IsRoot(Graph, g[k])

C7_Witness ==
  /\ last.op = "_processDeps"
  /\ DOMAIN info.dependencies # {}
  /\ \E r \in InGraph(Graph) :
       /\ IsRoot(Graph, r)
       /\ nodes[r].Value \notin info.targets
       /\ r \notin DOMAIN relatedMods

SameInfo(a, b) ==
  /\ a.targets = b.targets
  /\ DOMAIN a.dependents = DOMAIN b.dependents
  /\ DOMAIN a.dependencies = DOMAIN b.dependencies
  /\ DOMAIN a.optionals = DOMAIN b.optionals
  /\ \A k \in DOMAIN a.dependents : Range(a.dependents[k]) = Range(b.dependents[k])
  /\ \A k \in DOMAIN a.dependencies : Range(a.dependencies[k]) = Range(b.dependencies[k])
  /\ \A k \in DOMAIN a.optionals : Range(a.optionals[k]) = Range(b.optionals[k])

\* C8: two calls of _processDeps on the same pack, the same target file ids
\* and the same maxDepth return the same DepInfo: the same targets, and the
\* same keys with the same sets of values in dependents, dependencies and
\* optionals.
C8_SameResultTwice ==
  last.op = "_processDeps again" => SameInfo(info, info2)

\* the nodes of the targets, and the nodes that depend on one of them directly
TargetsOf(inf) == {g[t] : t \in inf.targets}

DirectDependents(inf) == UNION {nodes[t].Dependents : t \in TargetsOf(inf)}

\* C9: with maxDepth = 1 every key of DepInfo.dependents has a target in its
\* Dependencies set, and no node that is two or more dependent-hops away
\* from every target is a key of dependents.
C9_DepthOneDirectOnly ==
  \A inf \in Returned :
    last.maxDepth = 1 =>
      /\ \A k \in DOMAIN inf.dependents :
           \E t \in TargetsOf(inf) : t \in nodes[g[k]].Dependencies
      /\ \A n \in InGraph(Graph) \ (TargetsOf(inf) \cup DirectDependents(inf)) :
           nodes[n].Value \notin DOMAIN inf.dependents

C9_Witness ==
  /\ last.op = "_processDeps"
  /\ last.maxDepth = 1
  /\ DOMAIN info.dependents # {}
  /\ \E d \in DirectDependents(info) :
       nodes[d].Dependents \ (TargetsOf(info) \cup DirectDependents(info)) # {}

\* the nodes from which a node of S is reachable over zero or more
\* required-dependency edges
RECURSIVE DependentsClosure(_)
DependentsClosure(S) ==
  LET T == S \cup UNION {nodes[x].Dependents : x \in S}
  IN IF T = S THEN S ELSE DependentsClosure(T)

TransitiveDependents(inf) ==
  UNION {nodes[x].Dependents : x \in DependentsClosure(TargetsOf(inf))}

\* C10: with maxDepth = -1 every node from which a target is reachable over
\* one or more required-dependency edges is a key of DepInfo.dependents.
C10_UnboundedCascade ==
  \A inf \in Returned :
    last.maxDepth = -1 =>
      \A n \in TransitiveDependents(inf) : nodes[n].Value \in DOMAIN inf.dependents

C10_Witness ==
  /\ last.op = "_processDeps"
  /\ last.maxDepth = -1
  /\ \E n \in TransitiveDependents(info) \ (TargetsOf(info) \cup DirectDependents(info)) :
       nodes[n].Value \in DOMAIN info.dependents

\* ---- mod.remove.single and mod.remove.recursive ----
MaxMods == 3        \* length of a list handed to _removeMods directly

\* the names a user can type: name p is the name of project p of the
\* projects table, and name 0 is the name of no project
Names == 0..MaxValues

\* select projectid from projects where type = 0 and (name = ? or slug = ?)
findModByName(name) ==
  IF name \in {f.projectid : f \in DbFiles}
  THEN [modID |-> name, err |-> FALSE]
  ELSE [modID |-> -1, err |-> TRUE]

\* the file id the pack's manifest holds for a project, or a lookup miss
lookupFileId(fs, projectId) ==
  IF \E i \in 1..Len(fs) : fs[i].projectID = projectId
  THEN [modID |-> fs[CHOOSE i \in 1..Len(fs) :
                       /\ fs[i].projectID = projectId
                       /\ \A j \in 1..(i - 1) : fs[j].projectID # projectId].fileID,
        err |-> FALSE]
  ELSE [modID |-> -1, err |-> TRUE]

\* the names that pass both lookups of the loop of _initRemove
Resolves(fs, modName) ==
  /\ ~findModByName(modName).err
  /\ ~lookupFileId(fs, findModByName(modName).modID).err

ResolveNamesOrAbort(fs, modNames) ==
  IF \E n \in modNames : ~Resolves(fs, n) THEN {}
  ELSE {lookupFileId(fs, findModByName(n).modID).modID : n \in modNames}

\* the loop of _initRemove: modIDs after every name was tried; a name that
\* fails a lookup is logged and skipped
ResolveNames(fs, modNames) ==
  {lookupFileId(fs, findModByName(n).modID).modID :
     n \in {m \in modNames : Resolves(fs, m)}}

\* every outcome of _initRemove; the graph is built by _processDeps only
initRemove(fs, rows, modNames, maxDepth) ==
  LET modIDs == ResolveNames(fs, modNames)
  IN IF Cardinality(modIDs) = 0
     THEN {[err |-> "no mods found", G |-> MakeGraph, info |-> NoInfo,
            relatedMods |-> EmptyMap]}
     ELSE LET G == buildDepGraph(fs, rows)
          IN {[err |-> "nil", G |-> G, info |-> r.info, relatedMods |-> r.relatedMods] :
                r \in processDeps(G, fs, modIDs, maxDepth)}

\* ---- _removeMods ----
\* Container.ArrayRemove(index, "files"): out of bounds is an error
ArrayRemove(fs, index) ==
  IF index < 0 \/ index >= Len(fs)
  THEN [err |-> TRUE, files |-> fs]
  ELSE [err |-> FALSE, files |-> SubSeq(fs, 1, index) \o SubSeq(fs, index + 2, Len(fs))]

\* a list with the elements of a Go map's key set; _removeMods sorts the
\* list it is given, which erases the order `range` produced
RECURSIVE KeyList(_)
KeyList(S) ==
  IF S = {} THEN <<>>
  ELSE LET x == CHOOSE y \in S : \A z \in S : y <= z
       IN <<x>> \o KeyList(S \ {x})

\* sort.Slice(mods, func(i, j) { return mods[j].idx < mods[i].idx }), on
\* entries given by their position in the manifest the graph was built from
RECURSIVE SortByIdx(_)
SortByIdxNone(mods) == mods

SortByIdx(mods) ==
  IF Len(mods) = 0 THEN <<>>
  ELSE LET rest == SortByIdx(Tail(mods))
           m == Head(mods)
       IN SelectSeq(rest, LAMBDA x : (m - 1) < (x - 1))
          \o <<m>>
          \o SelectSeq(rest, LAMBDA x : ~((m - 1) < (x - 1)))

\* the loop `for _, m := range mods` of _removeMods; pack is the manifest
\* the entries were read from, cur the manifest as it is being changed
RECURSIVE RemoveLoop(_, _, _, _)
RemoveLoopAbort(pack, mods, cur, st) ==
  IF Len(mods) = 0 THEN [st EXCEPT !.files = cur]
  ELSE LET m == Entry(pack, Head(mods))
           r == ArrayRemove(cur, m.idx)
       IN IF r.err
          THEN [st EXCEPT !.files = cur, !.attempts = Append(@, [idx |-> m.idx, ok |-> FALSE])]
          ELSE RemoveLoop(pack, Tail(mods), r.files,
                          [st EXCEPT !.done = @ + 1,
                                     !.attempts = Append(@, [idx |-> m.idx, ok |-> TRUE]),
                                     !.cleanups = Append(@, m.projId)])

RemoveLoop(pack, mods, cur, st) ==
  IF Len(mods) = 0 THEN [st EXCEPT !.files = cur]
  ELSE LET m == Entry(pack, Head(mods))
           r == ArrayRemove(cur, m.idx)
       IN IF r.err
          THEN RemoveLoop(pack, Tail(mods), cur,
                          [st EXCEPT !.attempts = Append(@, [idx |-> m.idx, ok |-> FALSE])])
          ELSE RemoveLoop(pack, Tail(mods), r.files,
                          [st EXCEPT !.done = @ + 1,
                                     !.attempts = Append(@, [idx |-> m.idx, ok |-> TRUE]),
                                     !.cleanups = Append(@, m.projId)])

\* what one call of _removeMods leaves behind
Outcome(err, fs, dsk, mods, done, attempts, cleanups, saves) ==
  [err |-> err, files |-> fs, disk |-> dsk, mods |-> mods, done |-> done,
   attempts |-> attempts, cleanups |-> cleanups, saves |-> saves]

\* the part of _removeMods after the loop: r is the state the loop ended in,
\* saveOk tells whether writing manifest.json works
FinishAlwaysSave(r, dsk, mods, saveOk) ==
  IF ~saveOk
  THEN Outcome("failed to save changes to manifest",
               r.files, dsk, mods, r.done, r.attempts, r.cleanups, 1)
  ELSE IF r.done < Len(mods)
  THEN Outcome("some mods could not be removed; pack may be in an invalid state",
               r.files, r.files, mods, r.done, r.attempts, r.cleanups, 1)
  ELSE Outcome("nil", r.files, r.files, mods, r.done, r.attempts, r.cleanups, 1)

FinishIgnoreSaveError(r, dsk, mods, saveOk) ==
  IF ~(r.done > 0)
  THEN Outcome("failed to remove any mods; no changes have been made",
               r.files, dsk, mods, r.done, r.attempts, r.cleanups, 0)
  ELSE IF r.done < Len(mods)
  THEN Outcome("some mods could not be removed; pack may be in an invalid state",
               r.files, IF saveOk THEN r.files ELSE dsk, mods, r.done, r.attempts,
               r.cleanups, 1)
  ELSE Outcome("nil", r.files, IF saveOk THEN r.files ELSE dsk, mods, r.done,
               r.attempts, r.cleanups, 1)

Finish(r, dsk, mods, saveOk) ==
  IF r.done > 0 /\ ~saveOk
  THEN Outcome("failed to save changes to manifest",
               r.files, dsk, mods, r.done, r.attempts, r.cleanups, 1)
  ELSE IF ~(r.done > 0)
  THEN Outcome("failed to remove any mods; no changes have been made",
               r.files, dsk, mods, r.done, r.attempts, r.cleanups, 0)
  ELSE IF r.done < Len(mods)
  THEN Outcome("some mods could not be removed; pack may be in an invalid state",
               r.files, r.files, mods, r.done, r.attempts, r.cleanups, 1)
  ELSE Outcome("nil", r.files, r.files, mods, r.done, r.attempts, r.cleanups, 1)

\* _removeMods(cp, mods) with the flag -n read from ARG_DRY_RUN
removeMods(fs, dsk, ARG_DRY_RUN, mods, saveOk) ==
  IF ARG_DRY_RUN
  THEN Outcome("nil", fs, dsk, mods, 0, <<>>, <<>>, 0)
  ELSE LET sorted == SortByIdx(mods)
       IN Finish(RemoveLoop(fs, sorted, fs,
                            [files |-> fs, done |-> 0, attempts |-> <<>>, cleanups |-> <<>>]),
                 dsk, sorted, saveOk)

\* ---- the two commands ----
\* rmList of cmdModRemoveSingle: the targets
SingleRmListWithDependents(inf) ==
  KeyList(inf.targets) \o KeyList(DOMAIN inf.dependents)

SingleRmList(inf) == KeyList(inf.targets)

RecursiveRmListNoDependencies(inf) ==
  KeyList(inf.targets) \o KeyList(DOMAIN inf.dependents)

\* rmList of cmdModRemoveRecursive: three appending loops
RecursiveRmList(inf) ==
  KeyList(inf.targets) \o KeyList(DOMAIN inf.dependents) \o KeyList(DOMAIN inf.dependencies)

\* cmdModRemoveSingle from the return of _initRemove(cp, names, 1) on
cmdModRemoveSingle(fs, dsk, a, ARG_DRY_RUN, saveOk) ==
  IF a.err # "nil" THEN Outcome(a.err, fs, dsk, <<>>, 0, <<>>, <<>>, 0)
  ELSE removeMods(fs, dsk, ARG_DRY_RUN, SingleRmList(a.info), saveOk)

\* cmdModRemoveRecursive from the return of _initRemove(cp, names, -1) on
cmdModRemoveRecursive(fs, dsk, a, ARG_DRY_RUN, saveOk) ==
  IF a.err # "nil" THEN Outcome(a.err, fs, dsk, <<>>, 0, <<>>, <<>>, 0)
  ELSE removeMods(fs, dsk, ARG_DRY_RUN, RecursiveRmList(a.info), saveOk)

\* ---- one invocation of the tool on a pack ----
\* the lists of at most k entries of a manifest of n files
RECURSIVE Lists(_, _)
Lists(n, k) ==
  IF k = 0 THEN {<<>>}
  ELSE {<<>>} \cup {<<v>> \o l : v \in 1..n, l \in Lists(n, k - 1)}

\* what the invocation was and what it returned
Ran(op, modNames, maxDepth, dry, saveOk, before, r, again) ==
  [op |-> op, modNames |-> modNames, maxDepth |-> maxDepth, ARG_DRY_RUN |-> dry,
   saved |-> (r.saves > 0 /\ saveOk), before |-> before, err |-> r.err, mods |-> r.mods,
   done |-> r.done, attempts |-> r.attempts, cleanups |-> r.cleanups,
   saves |-> r.saves, again |-> again]

InitRemove ==
  /\ g = MakeGraph.g
  /\ nodes = MakeGraph.nodes
  /\ last = [op |-> "NewModPack"]
  /\ nops = 0
  /\ files \in Manifests
  /\ db \in Tables(Len(files), 0, MaxRows)
  /\ info = NoInfo
  /\ relatedMods = EmptyMap
  /\ info2 = NoInfo
  /\ disk = files

DoRemoveSingle ==
  /\ last.op = "NewModPack"
  /\ \E modNames \in SUBSET Names :
       LET A == initRemove(files, db, modNames, 1)
       IN \E a \in A, dry \in BOOLEAN, saveOk \in BOOLEAN :
            LET r == cmdModRemoveSingle(files, disk, a, dry, saveOk)
            IN /\ g' = a.G.g
               /\ nodes' = a.G.nodes
               /\ info' = a.info
               /\ relatedMods' = a.relatedMods
               /\ files' = r.files
               /\ disk' = r.disk
               /\ last' = Ran("cmdModRemoveSingle", modNames, 1, dry, saveOk, files, r, FALSE)
  /\ UNCHANGED <<nops, db, info2>>

DoRemoveRecursive ==
  /\ last.op = "NewModPack"
  /\ \E modNames \in SUBSET Names :
       LET A == initRemove(files, db, modNames, -1)
       IN \E a \in A, dry \in BOOLEAN, saveOk \in BOOLEAN :
            LET r == cmdModRemoveRecursive(files, disk, a, dry, saveOk)
            IN /\ g' = a.G.g
               /\ nodes' = a.G.nodes
               /\ info' = a.info
               /\ relatedMods' = a.relatedMods
               /\ files' = r.files
               /\ disk' = r.disk
               /\ last' = Ran("cmdModRemoveRecursive", modNames, -1, dry, saveOk, files, r, FALSE)
  /\ UNCHANGED <<nops, db, info2>>

\* after a preview with -n, the same command is run without the flag; the
\* new process loads the manifest from disk
DoRemoveAgain ==
  /\ last.op \in {"cmdModRemoveSingle", "cmdModRemoveRecursive"}
  /\ last.ARG_DRY_RUN
  /\ ~last.again
  /\ LET A == initRemove(disk, db, last.modNames, last.maxDepth)
     IN \E a \in A, saveOk \in BOOLEAN :
          LET r == IF last.op = "cmdModRemoveSingle"
                   THEN cmdModRemoveSingle(disk, disk, a, FALSE, saveOk)
                   ELSE cmdModRemoveRecursive(disk, disk, a, FALSE, saveOk)
          IN /\ g' = a.G.g
             /\ nodes' = a.G.nodes
             /\ info2' = a.info
             /\ files' = r.files
             /\ disk' = r.disk
             /\ last' = Ran(last.op, last.modNames, last.maxDepth, FALSE, saveOk, disk, r, TRUE)
  /\ UNCHANGED <<nops, db, info, relatedMods>>

NextRemove ==
  \/ DoRemoveSingle
  \/ DoRemoveRecursive
  \/ DoRemoveAgain

SpecRemove == InitRemove /\ [][NextRemove]_vars

\* ---- a preview with -n and the real run after it, on packs with more rows ----
InitPreview ==
  /\ g = MakeGraph.g
  /\ nodes = MakeGraph.nodes
  /\ last = [op |-> "NewModPack"]
  /\ nops = 0
  /\ files \in Manifests
  /\ db \in Tables(Len(files), 0, MaxDeps)
  /\ info = NoInfo
  /\ relatedMods = EmptyMap
  /\ info2 = NoInfo
  /\ disk = files

SpecPreview == InitPreview /\ [][NextRemove]_vars

\* ---- the removal executor on its own ----
InitMods ==
  /\ g = MakeGraph.g
  /\ nodes = MakeGraph.nodes
  /\ last = [op |-> "NewModPack"]
  /\ nops = 0
  /\ files \in Manifests
  /\ db = {}
  /\ info = NoInfo
  /\ relatedMods = EmptyMap
  /\ info2 = NoInfo
  /\ disk = files

\* _removeMods on a list of entries of the pack that its caller chose
DoRemoveMods ==
  /\ last.op = "NewModPack"
  /\ \E mods \in Lists(Len(files), MaxMods), dry \in BOOLEAN, saveOk \in BOOLEAN :
       LET r == removeMods(files, disk, dry, mods, saveOk)
       IN /\ files' = r.files
          /\ disk' = r.disk
          /\ last' = Ran("_removeMods", {}, 0, dry, saveOk, files, r, FALSE)
  /\ UNCHANGED <<g, nodes, nops, db, info, relatedMods, info2>>

NextMods == DoRemoveMods

SpecMods == InitMods /\ [][NextMods]_vars

\* ---- claims about the removal commands (specification SpecRemove) ----
Commands == {"cmdModRemoveSingle", "cmdModRemoveRecursive"}

\* the DepInfo of the invocation that ran last
Analysed == IF last.again THEN info2 ELSE info

\* the entries of the manifest as it was when the invocation started
EntriesAt(S) == {last.before[v] : v \in S \cap (1..Len(last.before))}

AllDeleted == \A i \in 1..Len(last.attempts) : last.attempts[i].ok

\* C11: mod.remove.recursive removes exactly targets \cup keys(dependents)
\* \cup keys(dependencies) of the unbounded analysis: when every index
\* deletion succeeds, each of those entries is gone from the files array and
\* every other entry that was in the array is still there.
C11_RecursiveRemovesExactly ==
  (/\ last.op = "cmdModRemoveRecursive"
   /\ ~last.ARG_DRY_RUN
   /\ last.err # "no mods found"
   /\ AllDeleted) =>
     Range(files) =
       Range(last.before) \ EntriesAt(Analysed.targets
                                        \cup DOMAIN Analysed.dependents
                                        \cup DOMAIN Analysed.dependencies)

\* C12: mod.remove.single analyses with maxDepth = 1 and removes only the
\* targets: every entry of the manifest that is not in DepInfo.targets, also
\* one reported as dependent, orphaned dependency or optional, is still in
\* the files array afterwards, and every target is gone unless -n was given.
C12_SingleRemovesOnlyTargets ==
  last.op = "cmdModRemoveSingle" =>
    /\ last.maxDepth = 1
    /\ EntriesAt((1..Len(last.before)) \ Analysed.targets) \subseteq Range(files)
    /\ (~last.ARG_DRY_RUN /\ last.err # "no mods found") =>
         Range(files) = Range(last.before) \ EntriesAt(Analysed.targets)

C12_Witness ==
  /\ last.op = "cmdModRemoveSingle"
  /\ ~last.ARG_DRY_RUN
  /\ last.done > 0
  /\ DOMAIN info.dependents \ info.targets # {}
  /\ Len(files) > 0

\* the names of last.modNames that name a project with a file in the pack
ResolvedNames ==
  {n \in last.modNames : \E i \in 1..Len(last.before) : last.before[i].projectID = n}

\* C16: a name that resolves to no project, or to a project with no file in
\* the pack, is skipped and the analysis runs on the names that resolved;
\* _initRemove fails with "no mods found" iff no name resolves, and then no
\* graph is built and the manifest is not touched.
C16_InputResolution ==
  last.op \in Commands =>
    /\ last.err = "no mods found" <=> ResolvedNames = {}
    /\ ResolvedNames = {} =>
         /\ g = MakeGraph.g
         /\ nodes = MakeGraph.nodes
         /\ Analysed = NoInfo
         /\ files = last.before
         /\ disk = last.before
    /\ ResolvedNames # {} =>
         Analysed.targets =
           {v \in 1..Len(last.before) : last.before[v].projectID \in ResolvedNames}

C16_Witness ==
  /\ last.op \in Commands
  /\ ResolvedNames # {}
  /\ last.modNames \ ResolvedNames # {}
  /\ 0 \in last.modNames
  /\ last.done > 0

\* ---- claims about a preview and the run after it (specification SpecPreview) ----
\* the part of C13 about the manifest: with -n, _removeMods returns nil,
\* attempts no deletion, calls no cache cleanup and saves nothing, and the
\* manifest in memory and on disk is as it was
DryRunFrame ==
  (last.op \in Commands /\ last.ARG_DRY_RUN /\ last.err # "no mods found") =>
    /\ last.err = "nil"
    /\ last.attempts = <<>>
    /\ last.cleanups = <<>>
    /\ last.saves = 0
    /\ files = last.before
    /\ disk = last.before

\* C13: with -n, _removeMods returns success without deleting an entry,
\* without cache cleanup and without saving, so the manifest is the same
\* before and after; and the DepInfo computed is the same as the one a run
\* without -n computes on the same pack and targets.
C13_DryRunPreview ==
  /\ DryRunFrame
  /\ (last.op \in Commands /\ last.again) => SameInfo(info, info2)

\* ---- claims about the removal executor (specification SpecMods) ----
SomeDeleted == \E i \in 1..Len(last.attempts) : last.attempts[i].ok

\* C14: outside dry run, _removeMods saves the manifest iff at least one
\* index deletion succeeded; when none succeeded, also for an empty list, it
\* returns the "no changes have been made" error and the manifest is
\* neither modified nor saved.
C14_PersistIffProgress ==
  (last.op = "_removeMods" /\ ~last.ARG_DRY_RUN) =>
    /\ last.saves > 0 <=> SomeDeleted
    /\ ~SomeDeleted =>
         /\ last.err = "failed to remove any mods; no changes have been made"
         /\ files = last.before
         /\ disk = last.before
         /\ ~last.saved

C14_Witness ==
  /\ last.op = "_removeMods"
  /\ ~last.ARG_DRY_RUN
  /\ ~SomeDeleted
  /\ last.err = "failed to remove any mods; no changes have been made"
  /\ Len(files) > 1

RmList(inf) == IF last.maxDepth = 1 THEN SingleRmList(inf) ELSE RecursiveRmList(inf)

RemovedNodes(inf) == {g[v] : v \in Range(RmList(inf))}

\* D optionally uses the target A, is no target and requires no removed entry
DanglingOptional(inf, D, A) ==
  /\ A \in nodes[D].Optionals
  /\ A \in TargetsOf(inf)
  /\ D \notin TargetsOf(inf)
  /\ nodes[D].Dependencies \cap RemovedNodes(inf) = {}

\* D is reported under optionals with A, and nowhere else, and is not removed
ReportedOptional(inf, D, A) ==
  /\ nodes[D].Value \in DOMAIN inf.optionals
  /\ nodes[A].Value \in Range(inf.optionals[nodes[D].Value])
  /\ nodes[D].Value \notin inf.targets
  /\ nodes[D].Value \notin DOMAIN inf.dependents
  /\ nodes[D].Value \notin DOMAIN inf.dependencies
  /\ nodes[D].Value \notin Range(RmList(inf))

\* C17 as stated: if D has an optional edge to A, A is a target and D has no
\* required dependency on any removed entry, then optionals maps D to a list
\* with A, D is in none of targets, keys(dependents), keys(dependencies), and
\* D is not in the removal list of either removal mode.
C17_DanglingOptionalAsStated ==
  \A inf \in Returned :
    \A D, A \in InGraph(Graph) :
      DanglingOptional(inf, D, A) => ReportedOptional(inf, D, A)

\* C17 amended: the same, for a D that is a root (no entry of the pack
\* requires D).
C17_DanglingOptionalOfRoot ==
  \A inf \in Returned :
    \A D, A \in InGraph(Graph) :
      (DanglingOptional(inf, D, A) /\ IsRoot(Graph, D)) => ReportedOptional(inf, D, A)

C17_Witness ==
  /\ last.op = "_processDeps"
  /\ \E D, A \in InGraph(Graph) :
       /\ DanglingOptional(info, D, A)
       /\ IsRoot(Graph, D)
       /\ nodes[D].Dependencies # {}
       /\ info.optionals[nodes[D].Value] = <<nodes[A].Value>>

\* A is a root and the only target, and the only dependent of C is A
OrphanedBy(inf, A, C) ==
  /\ IsRoot(Graph, A)
  /\ nodes[C].Dependents = {A}
  /\ TargetsOf(inf) = {A}

\* C is reported as orphaned by A and is in the recursive removal list
ReportedOrphan(inf, A, C) ==
  /\ nodes[C].Value \in DOMAIN inf.dependencies
  /\ inf.dependencies[nodes[C].Value] = <<nodes[A].Value>>
  /\ nodes[C].Value \in Range(RecursiveRmList(inf))

\* C18 as stated: in a pack with a root A and an entry C whose only
\* dependent is A, removing A recursively yields dependencies[C] = [A] and C
\* is in the recursive removal list.
C18_OrphanedDependencyAsStated ==
  \A inf \in Returned :
    last.maxDepth = -1 =>
      \A A, C \in InGraph(Graph) :
        OrphanedBy(inf, A, C) => ReportedOrphan(inf, A, C)

\* C18 amended: the same, when every entry with an optional edge to C is
\* itself in the recursive removal list.
C18_OrphanedDependencyNoSurvivingOptional ==
  \A inf \in Returned :
    last.maxDepth = -1 =>
      \A A, C \in InGraph(Graph) :
        (/\ OrphanedBy(inf, A, C)
         /\ \A M \in InGraph(Graph) :
              C \in nodes[M].Optionals => nodes[M].Value \in Range(RecursiveRmList(inf)))
          => ReportedOrphan(inf, A, C)

C18_Witness ==
  /\ last.op = "_processDeps"
  /\ last.maxDepth = -1
  /\ \E A, C \in InGraph(Graph) :
       /\ OrphanedBy(info, A, C)
       /\ ReportedOrphan(info, A, C)
       /\ \E M \in InGraph(Graph) : C \in nodes[M].Optionals

\* the nodes within maxDepth dependent-hops of a target
WithinMaxDepth(inf) ==
  IF last.maxDepth = 1 THEN DirectDependents(inf) ELSE TransitiveDependents(inf)

\* C19: the keys of DepInfo.dependents are exactly the non-target nodes
\* reachable backward from a target within maxDepth dependent-hops; no entry
\* of DepInfo.targets is a key of DepInfo.dependents.
C19_DependentsAreNonTargets ==
  \A inf \in Returned :
    /\ DOMAIN inf.dependents =
         {nodes[n].Value : n \in WithinMaxDepth(inf) \ TargetsOf(inf)}
    /\ DOMAIN inf.dependents \cap inf.targets = {}

\* C20: in every DepInfo returned, for maxDepth 1 and unbounded, the key
\* sets of dependents, dependencies and optionals are pairwise disjoint, and
\* the keys of dependencies and of optionals are disjoint from targets.
C20_Partitioned ==
  \A inf \in Returned :
    /\ DOMAIN inf.dependents \cap DOMAIN inf.dependencies = {}
    /\ DOMAIN inf.dependents \cap DOMAIN inf.optionals = {}
    /\ DOMAIN inf.dependencies \cap DOMAIN inf.optionals = {}
    /\ DOMAIN inf.dependencies \cap inf.targets = {}
    /\ DOMAIN inf.optionals \cap inf.targets = {}

\* ---- claims about the phases of the analysis (specifications SpecPhases, SpecLarge) ----
\* a call of _processDeps has returned and its phases are on record
Phased == last.op = "_processDeps" /\ "phase2" \in DOMAIN last

\* d is marked visited in related at a depth below the effective maxDepth
VisitedBelow(related, d) ==
  d \in DOMAIN related /\ related[d] < EffectiveMaxDepth(last.maxDepth)

\* the non-root nodes phase 1 did not reach
Unreached == {n \in InGraph(Graph) : ~IsRoot(Graph, n) /\ n \notin DOMAIN last.phase1}

\* every dependent of n is visited below maxDepth when phase 2 ends
AllDependentsVisited(n) ==
  \A d \in nodes[n].Dependents : VisitedBelow(last.phase2.relatedMods, d)

\* C21: a non-root node not reached in phase 1 is recorded in
\* DepInfo.dependencies during phase 2 if and only if every one of its
\* dependents is marked visited at a depth below maxDepth, and the list
\* recorded for it is exactly its full set of dependents.
C21_OrphanCriterion ==
  Phased =>
    \A n \in Unreached :
      LET v == nodes[n].Value
          recorded == last.phase2.dependencies
      IN /\ (v \in DOMAIN recorded) <=> AllDependentsVisited(n)
         /\ v \in DOMAIN recorded =>
              /\ Range(recorded[v]) = {nodes[d].Value : d \in nodes[n].Dependents}
              /\ Len(recorded[v]) = Cardinality(nodes[n].Dependents)

\* the nodes phase 2 classified as orphaned dependencies
Orphans == {n \in Unreached : nodes[n].Value \in DOMAIN last.phase2.dependencies}

\* the least depth at which a dependent of n is marked when phase 2 ends
MinDependentDepth(n) ==
  LET depths == {last.phase2.relatedMods[d] : d \in nodes[n].Dependents}
  IN CHOOSE x \in depths : \A y \in depths : x <= y

\* C22: phase 2 marks an orphaned dependency visited at depth 1 + (minimum
\* depth among its dependents); with maxDepth = 1 a node that has an
\* orphaned dependency among its dependents is not itself a key of
\* DepInfo.dependencies.
C22_OrphanDepth ==
  Phased =>
    /\ \A n \in Orphans : last.phase2.relatedMods[n] = 1 + MinDependentDepth(n)
    /\ last.maxDepth = 1 =>
         \A n \in InGraph(Graph) :
           (nodes[n].Dependents \cap Orphans # {}) =>
             nodes[n].Value \notin DOMAIN last.phase2.dependencies

\* the nodes that are in none of targets, keys(dependents), keys(dependencies)
Survivors(inf) ==
  {m \in InGraph(Graph) :
     nodes[m].Value \notin
       (inf.targets \cup DOMAIN inf.dependents \cup DOMAIN inf.dependencies)}

\* C23: in the DepInfo returned by _processDeps no key of dependencies is
\* the target of an optional edge from a surviving node; an orphan that a
\* surviving node optionally uses is removed from dependencies, is
\* un-visited, and is not listed in optionals of that node.
C23_UnorphanedByOptional ==
  Phased =>
    \A M \in Survivors(info) :
      \A o \in nodes[M].Optionals :
        /\ nodes[o].Value \notin DOMAIN info.dependencies
        /\ nodes[o].Value \in DOMAIN last.phase2.dependencies =>
             /\ o \notin DOMAIN relatedMods
             /\ nodes[M].Value \in DOMAIN info.optionals =>
                  nodes[o].Value \notin Range(info.optionals[nodes[M].Value])

\* ---- claims about the executor (specification SpecMods) ----
\* the array fs without the elements at the (1-based) positions in S
WithoutPositions(fs, S) ==
  LET kept == SelectSeq([i \in 1..Len(fs) |-> i], LAMBDA i : i \notin S)
  IN [j \in 1..Len(kept) |-> fs[kept[j]]]

\* _removeMods ran for real on a list that names no entry twice
RemovedDistinct ==
  /\ last.op = "_removeMods"
  /\ ~last.ARG_DRY_RUN
  /\ Cardinality(Range(last.mods)) = Len(last.mods)

\* C24: given a list of distinct manifest entries whose idx fields are their
\* positions in the files array, _removeMods deletes them in strictly
\* descending idx order, every deletion succeeds, and the resulting array
\* is the original array minus exactly the listed entries, in the original
\* relative order.
C24_IndexSafeDeletion ==
  RemovedDistinct =>
    /\ Len(last.attempts) = Len(last.mods)
    /\ \A i \in 1..Len(last.attempts) :
         /\ last.attempts[i].ok
         /\ i > 1 => last.attempts[i - 1].idx > last.attempts[i].idx
    /\ files = WithoutPositions(last.before, Range(last.mods))

C24_Witness ==
  /\ RemovedDistinct
  /\ Len(last.before) = 3
  /\ [i \in 1..Len(last.attempts) |-> last.attempts[i].idx] = <<1, 0>>
  /\ files = <<last.before[3]>>

\* ---- further claims about the graph API (specification Spec) ----
\* C25: after any sequence of AddNode, AddDependencies, AddOptionals and
\* RemoveNode calls, also with AddDependencies or AddOptionals called on the
\* handle of a node that has been removed, every member of a graph node's
\* Dependencies, Dependents or Optionals set is itself a value of the graph
\* map, and adding an edge to an absent value creates its node.
C25_EdgeEndpointsAreNodes ==
  /\ \A n \in InGraph(Graph) :
       (nodes[n].Dependencies \cup nodes[n].Dependents \cup nodes[n].Optionals)
         \subseteq InGraph(Graph)
  /\ last.op \in {"AddDependencies", "AddOptionals"} =>
       \A i \in 1..Len(last.keys) : g[last.keys[i]] # Nil

\* the terminal states of one call of the executor
Executed == last.op = "_removeMods"

Reported ==
  /\ last.ARG_DRY_RUN
  /\ last.err = "nil"
  /\ last.attempts = <<>>
  /\ last.saves = 0
  /\ files = last.before
  /\ disk = last.before

Persisted ==
  /\ ~last.ARG_DRY_RUN
  /\ SomeDeleted
  /\ AllDeleted
  /\ last.saved
  /\ disk = files
  /\ last.err = "nil"

PartialFailure ==
  /\ ~last.ARG_DRY_RUN
  /\ SomeDeleted
  /\ ~AllDeleted
  /\ last.saved
  /\ disk = files
  /\ last.err # "nil"

NoOpFailure ==
  /\ ~last.ARG_DRY_RUN
  /\ ~SomeDeleted
  /\ last.saves = 0
  /\ files = last.before
  /\ disk = last.before
  /\ last.err # "nil"

SaveFailure ==
  /\ ~last.ARG_DRY_RUN
  /\ SomeDeleted
  /\ last.saves = 1
  /\ ~last.saved
  /\ last.err = "failed to save changes to manifest"

\* exactly one of the predicates in S holds
ExactlyOne(S) == Cardinality({i \in 1..Len(S) : S[i]}) = 1

\* C26 as stated: every call of the executor ends in exactly one of Reported,
\* Persisted, PartialFailure and NoOpFailure; there is no other outcome.
C26_TerminalStatesAsStated ==
  Executed => ExactlyOne(<<Reported, Persisted, PartialFailure, NoOpFailure>>)

\* C26 amended: every call of the executor ends in exactly one of Reported,
\* Persisted, PartialFailure, NoOpFailure and SaveFailure (at least one
\* deletion succeeded, saving the manifest failed, the error of the save is
\* returned).
C26_TerminalStates ==
  Executed =>
    ExactlyOne(<<Reported, Persisted, PartialFailure, NoOpFailure, SaveFailure>>)

C26_Witness ==
  /\ Executed
  /\ SaveFailure
  /\ ~AllDeleted

\* ---- claims about the graph builder (specification SpecBuild) ----
Built == last.op = "buildDepGraph"

\* the installed file ids, and the node of the record made last for one
Installed == {files[i].fileID : i \in 1..Len(files)}

RecordOf(fileId) ==
  g[CHOOSE i \in 1..Len(files) :
      /\ files[i].fileID = fileId
      /\ \A j \in 1..Len(files) : files[j].fileID = fileId => j <= i]

\* the deps table has a row of this level from the file of node a to the
\* project of an installed file of node b
Supplied(a, b, level) ==
  \E r \in db, f \in DbFiles :
    /\ r.level = level
    /\ f.projectid = r.projectid
    /\ r.fileid \in Installed
    /\ f.fileid \in Installed
    /\ RecordOf(r.fileid) = a
    /\ RecordOf(f.fileid) = b

\* C27: a Required edge supplied to the builder becomes a dependency of its
\* source and a dependent of its target, an Optional edge becomes only an
\* entry in the source's Optionals, and an edge of level Embedded or of any
\* other level adds no edge of any kind.
C27_EdgesByLevel ==
  Built =>
    \A a, b \in InGraph(Graph) :
      /\ b \in nodes[a].Dependencies <=> Supplied(a, b, Required)
      /\ a \in nodes[b].Dependents <=> Supplied(a, b, Required)
      /\ b \in nodes[a].Optionals <=> Supplied(a, b, Optional)

C27_Witness ==
  /\ Built
  /\ \E r \in db : r.level \notin {Required, Optional, Embedded}
                    /\ r.fileid \in Installed
                    /\ \E f \in DbFiles : f.projectid = r.projectid /\ f.fileid \in Installed
  /\ \A n \in InGraph(Graph) :
       nodes[n].Dependencies \cup nodes[n].Dependents \cup nodes[n].Optionals = {}

\* C28: the built graph has exactly one node per manifest file entry and
\* nothing else: an edge whose source or target file is not installed
\* creates no node, an entry whose name cannot be resolved has its node, and
\* every edge connects two nodes that wrap manifest entries of the pack.
C28_OneNodePerEntry ==
  Built =>
    /\ \A i \in 1..Len(files) : g[i] # Nil /\ nodes[g[i]].Value = i
    /\ \A i, j \in 1..Len(files) : i # j => g[i] # g[j]
    /\ \A v \in Values : v > Len(files) => g[v] = Nil
    /\ Allocated(Graph) = InGraph(Graph)
    /\ \A n \in InGraph(Graph) :
         (nodes[n].Dependencies \cup nodes[n].Dependents \cup nodes[n].Optionals)
           \subseteq {g[i] : i \in 1..Len(files)}

C28_Witness ==
  /\ Built
  /\ \E i \in 1..Len(files) :
       /\ nameQuery(files[i].fileID, files[i].projectID) = {}
       /\ g[i] # Nil
  /\ \E r \in db :
       /\ r.level = Required
       /\ r.fileid \in Installed
       /\ \A f \in DbFiles : f.projectid = r.projectid => f.fileid \notin Installed

\* ---- further claims about the analysis (specifications SpecPhases, SpecLarge) ----
\* the nodes of targets, keys(dependents) and keys(dependencies)
RemovalSet(inf) ==
  {g[v] : v \in inf.targets \cup DOMAIN inf.dependents \cup DOMAIN inf.dependencies}

\* C29: after the unbounded-depth analysis, phase 3 included, no entry
\* outside targets, keys(dependents) and keys(dependencies) has a required
\* dependency on an entry inside: every dependent of a removed entry is
\* itself removed.
C29_RecursiveRemovalClosed ==
  (Phased /\ last.maxDepth = -1) =>
    \A m \in InGraph(Graph) \ RemovalSet(info) :
      nodes[m].Dependencies \cap RemovalSet(info) = {}

\* the list l holds nothing twice
NoRepeats(l) == \A i, j \in 1..Len(l) : i # j => l[i] # l[j]

\* C30: _processDeps returns for every pack, target set and maxDepth, also
\* for maxDepth = -1 on graphs with dependency cycles or self-dependencies:
\* phase 1 expands each node at most once (no node is appended twice to the
\* list of one of its dependents) and the list Graph.Sorted() hands to phase
\* 2 holds each node at most once.
C30_ExpandedAndEmittedOnce ==
  Phased =>
    /\ \A k \in DOMAIN info.dependents : NoRepeats(info.dependents[k])
    /\ \A k \in DOMAIN info.dependents :
         Range(info.dependents[k]) \subseteq {nodes[d].Value : d \in DOMAIN last.phase1}
    /\ NoRepeats(last.sorted)

C30_Witness ==
  /\ Phased
  /\ last.maxDepth = -1
  /\ Len(last.sorted) > 0
  /\ \E a, b \in DOMAIN last.phase1 :
       /\ a # b
       /\ b \in nodes[a].Dependencies
       /\ a \in nodes[b].Dependencies
       /\ a \in nodes[a].Dependencies

====
